---- MODULE Spec2Model ----
(***************************************************************************)
(* Model of the tavus-demo client: the Dashboard (session launcher), the   *)
(* TavusAPI client (remote session provider), the conversations table with *)
(* the useConversations hook (repository and its cached list) and the      *)
(* VideoInterface component (embedded session controller).                 *)
(*                                                                         *)
(* A remote call is a flow: the step in which the service executes it and  *)
(* the step in which the client receives the answer are separate where the *)
(* order of answers matters (insert, select).                              *)
(*                                                                         *)
(* React state hooks are variables; event handlers, timer callbacks and    *)
(* effect bodies are actions.  An effect whose dependency list changed is  *)
(* run before any further event is handled (EffectPending).                *)
(* Text values (origins, urls, messages) are sequences of one-character    *)
(* strings so that String.includes and String.startsWith are computed.     *)
(*                                                                         *)
(* Spec is the program without the fallback window; WindowSpec adds the    *)
(* window and its timers to the launcher and the controller.               *)
(***************************************************************************)
EXTENDS Integers, Sequences, FiniteSets, Bags

\* ---------------------------------------------------------------- bounds
MaxSessions == 2      \* start flows that reach the provider
MaxEndCalls == 2      \* calls of Dashboard.endConversation
MaxAttempts == 2      \* embed attempts per mounted controller
MaxDeletes == 1       \* calls of Dashboard.handleDeleteConversation
MaxWindows == 1       \* calls of VideoInterface.openInNewWindow
MaxRepositoryDeletes == 3   \* calls of useConversations.deleteConversation

\* ------------------------------------------------------ program constants
ProgressCeiling == 90       \* if (prev >= 90)
RandomSpan == 15            \* Math.random() * 15
ProgressDone == 100         \* setLoadingProgress(100)

\* ------------------------------------------------------------------ text
Http == <<"h", "t", "t", "p">>
TavusIo == <<"t", "a", "v", "u", "s", ".", "i", "o">>
DailyCo == <<"d", "a", "i", "l", "y", ".", "c", "o">>
TavusApiCom == <<"t", "a", "v", "u", "s", "a", "p", "i", ".", "c", "o", "m">>
SchemeSep == <<":", "/", "/">>
Dot == <<".">>
OriginTavusDaily == <<"h", "t", "t", "p", "s", ":", "/", "/", "t", "a", "v", "u", "s", ".", "d", "a", "i", "l", "y", ".", "c", "o">>
OriginOther == <<"h", "t", "t", "p", "s", ":", "/", "/", "e", "v", "i", "l", ".", "i", "o">>
OriginLookalike == <<"h", "t", "t", "p", "s", ":", "/", "/", "d", "a", "i", "l", "y", ".", "c", "o", ".", "e", "v", "i", "l", ".", "i", "o">>
UrlGood == <<"h", "t", "t", "p", "s", ":", "/", "/", "x">>
UrlBad == <<"f", "t", "p", ":", "/", "/", "x">>
\* substrings the Dashboard looks for, messages thrown and shown, messages of
\* the provider, of fetch and of the database
PatApiKey == <<"A", "P", "I", " ", "k", "e", "y">>
PatReplicaId == <<"r", "e", "p", "l", "i", "c", "a", "_", "i", "d">>
PatPersonaId == <<"p", "e", "r", "s", "o", "n", "a", "_", "i", "d">>
PatFetch == <<"f", "e", "t", "c", "h">>
MsgConfigRequired == <<"T", "a", "v", "u", "s", " ", "r", "e", "p", "l", "i", "c", "a", "_", "i", "d", " ", "a", "n", "d", " ", "p", "e", "r", "s", "o", "n", "a", "_", "i", "d", " ", "a", "r", "e", " ", "r", "e", "q", "u", "i", "r", "e", "d">>
MsgApiStatus == <<"T", "a", "v", "u", "s", " ", "A", "P", "I", " ", "e", "r", "r", "o", "r", ":", " ", "5", "0", "0">>
MsgInvalidResponse == <<"I", "n", "v", "a", "l", "i", "d", " ", "r", "e", "s", "p", "o", "n", "s", "e", " ", "f", "r", "o", "m", " ", "T", "a", "v", "u", "s", " ", "A", "P", "I", ":", " ", "m", "i", "s", "s", "i", "n", "g", " ", "c", "o", "n", "v", "e", "r", "s", "a", "t", "i", "o", "n", "_", "i", "d", " ", "o", "r", " ", "c", "o", "n", "v", "e", "r", "s", "a", "t", "i", "o", "n", "_", "u", "r", "l">>
MsgNetworkTavus == <<"N", "e", "t", "w", "o", "r", "k", " ", "e", "r", "r", "o", "r", ":", " ", "U", "n", "a", "b", "l", "e", " ", "t", "o", " ", "c", "o", "n", "n", "e", "c", "t", " ", "t", "o", " ", "T", "a", "v", "u", "s", " ", "A", "P", "I", ".", " ", "P", "l", "e", "a", "s", "e", " ", "c", "h", "e", "c", "k", " ", "y", "o", "u", "r", " ", "i", "n", "t", "e", "r", "n", "e", "t", " ", "c", "o", "n", "n", "e", "c", "t", "i", "o", "n", ".">>
MsgNoUrl == <<"N", "o", " ", "c", "o", "n", "v", "e", "r", "s", "a", "t", "i", "o", "n", " ", "U", "R", "L", " ", "r", "e", "c", "e", "i", "v", "e", "d", " ", "f", "r", "o", "m", " ", "T", "a", "v", "u", "s">>
MsgGeneric == <<"F", "a", "i", "l", "e", "d", " ", "t", "o", " ", "s", "t", "a", "r", "t", " ", "c", "o", "n", "v", "e", "r", "s", "a", "t", "i", "o", "n">>
MsgApiKeyShown == <<"I", "n", "v", "a", "l", "i", "d", " ", "T", "a", "v", "u", "s", " ", "A", "P", "I", " ", "k", "e", "y", ".", " ", "P", "l", "e", "a", "s", "e", " ", "c", "h", "e", "c", "k", " ", "y", "o", "u", "r", " ", "c", "o", "n", "f", "i", "g", "u", "r", "a", "t", "i", "o", "n", ".">>
MsgReplicaShown == <<"I", "n", "v", "a", "l", "i", "d", " ", "T", "a", "v", "u", "s", " ", "r", "e", "p", "l", "i", "c", "a", " ", "o", "r", " ", "p", "e", "r", "s", "o", "n", "a", " ", "I", "D", ".", " ", "P", "l", "e", "a", "s", "e", " ", "c", "h", "e", "c", "k", " ", "y", "o", "u", "r", " ", "c", "o", "n", "f", "i", "g", "u", "r", "a", "t", "i", "o", "n", ".">>
MsgNetworkShown == <<"N", "e", "t", "w", "o", "r", "k", " ", "e", "r", "r", "o", "r", ".", " ", "P", "l", "e", "a", "s", "e", " ", "c", "h", "e", "c", "k", " ", "y", "o", "u", "r", " ", "i", "n", "t", "e", "r", "n", "e", "t", " ", "c", "o", "n", "n", "e", "c", "t", "i", "o", "n", " ", "a", "n", "d", " ", "t", "r", "y", " ", "a", "g", "a", "i", "n", ".">>
MsgDeleteFailed == <<"F", "a", "i", "l", "e", "d", " ", "t", "o", " ", "d", "e", "l", "e", "t", "e", " ", "c", "o", "n", "v", "e", "r", "s", "a", "t", "i", "o", "n", ".", " ", "P", "l", "e", "a", "s", "e", " ", "t", "r", "y", " ", "a", "g", "a", "i", "n", ".">>
BodyInvalidKey == <<"I", "n", "v", "a", "l", "i", "d", " ", "A", "P", "I", " ", "k", "e", "y">>
BodyInvalidReplica == <<"i", "n", "v", "a", "l", "i", "d", " ", "r", "e", "p", "l", "i", "c", "a", "_", "i", "d">>
BodyKeyPersona == <<"A", "P", "I", " ", "k", "e", "y", " ", "h", "a", "s", " ", "n", "o", " ", "p", "e", "r", "s", "o", "n", "a", "_", "i", "d">>
BodyQuota == <<"q", "u", "o", "t", "a", " ", "e", "x", "c", "e", "e", "d", "e", "d">>
TypeErrorFetch == <<"F", "a", "i", "l", "e", "d", " ", "t", "o", " ", "f", "e", "t", "c", "h">>
TypeErrorLoad == <<"L", "o", "a", "d", " ", "f", "a", "i", "l", "e", "d">>
DbDenied == <<"p", "e", "r", "m", "i", "s", "s", "i", "o", "n", " ", "d", "e", "n", "i", "e", "d">>

\* String.prototype.includes
Includes(s, sub) ==
  \E i \in 1..(Len(s) - Len(sub) + 1) : SubSeq(s, i, i + Len(sub) - 1) = sub

\* String.prototype.startsWith
StartsWith(s, prefix) ==
  Len(s) >= Len(prefix) /\ SubSeq(s, 1, Len(prefix)) = prefix

EndsWith(s, suffix) ==
  Len(s) >= Len(suffix) /\ SubSeq(s, Len(s) - Len(suffix) + 1, Len(s)) = suffix

\* ---------------------------------------------------------------- inputs
Origins == {OriginTavusDaily, OriginOther, OriginLookalike}
MessageTypes == {"video-call-started", "video-call-ended", "iframe-blocked", "other"}
Urls == {UrlGood, UrlBad}
Outcomes == {"ok", "fail"}

\* what fetch gives TavusAPI.createConversation: a success status with a body
\* (hasId: a non-empty conversation_id; url: conversation_url, <<>> if
\* missing), an error status with the message of its body (<<>> if none), or
\* a TypeError thrown by fetch
Responses ==
  {[status |-> "ok", hasId |-> i, url |-> u, message |-> <<>>] :
     i \in BOOLEAN, u \in {<<>>} \cup Urls}
  \cup {[status |-> "error", hasId |-> FALSE, url |-> <<>>, message |-> m] :
     m \in {<<>>, BodyInvalidKey, BodyInvalidReplica, BodyKeyPersona, BodyQuota}}
  \cup {[status |-> "network", hasId |-> FALSE, url |-> <<>>, message |-> m] :
     m \in {TypeErrorFetch, TypeErrorLoad}}

\* what the insert of createConversation throws: the error object of the
\* database client, an Error instance or not
DbThrown == {[isError |-> e, message |-> DbDenied] : e \in BOOLEAN}

\* window.open returns a window or null
Popups == {"window", "blocked"}

\* import.meta.env: whether VITE_TAVUS_REPLICA_ID and VITE_TAVUS_PERSONA_ID
\* are set
Configs == [replicaId : BOOLEAN, personaId : BOOLEAN]

\* the integer parts Math.random() * 15 is drawn from here
ProgressIncrements == {RandomSpan - 1}

\* ----------------------------------------------------------------- state
VARIABLES
  \* Dashboard
  activeConversation,   \* null or {id, url, tavusId}
  isStartingVideo,
  error,                \* null or a message
  startFlow,            \* position of the running startVideoConversation call
  endFlows,             \* running endConversation calls (a bag), each with the
                        \* activeConversation.id and .tavusId it reads
  \* useConversations (called by Dashboard)
  conversations,        \* the cached list of rows
  loading,
  listFlow,             \* position of the fetchConversations call of the effect
  deleteFlows,          \* ids with a running deleteConversation call
  deleteCalls,          \* calls of handleDeleteConversation so far
  \* remote services
  tavusSessions,        \* remote session id -> "none" | "active" | "ended"
  dbRows,               \* conversations table: id -> NoRow or row
  clock,                \* logical time read by new Date()
  \* VideoInterface
  iframeLoaded,
  iframeError,
  loadingProgress,
  retryCount,
  showFallback,
  embedBlocked,
  effectDeps,           \* [conversationUrl, retryCount] of the last effect run
  embedTimeout,         \* pending 5000 ms timeout with the flags its closure captured
  progressInterval,     \* pending 200 ms interval
  escalations,          \* pending 1000 ms timeouts of handleIframeError, by attempt
  \* history
  attempt,              \* embed attempts of the mounted instance
  endSessionCalls,      \* remote session id -> calls of tavusAPI.endConversation
  orphaned,             \* remote sessions created by a start flow that failed
  \* environment
  config,               \* import.meta.env of the build
  \* timers of openInNewWindow
  windowPolls,          \* pending checkClosed intervals, each with the state
                        \* of the window it watches
  windowCalls           \* calls of openInNewWindow so far

repoVars == <<conversations, loading, listFlow, deleteFlows, deleteCalls>>
dashVars == <<activeConversation, isStartingVideo, error, startFlow, endFlows, repoVars>>
remoteVars == <<tavusSessions, dbRows, clock>>
flagVars == <<iframeLoaded, iframeError, loadingProgress, retryCount, showFallback, embedBlocked>>
timerVars == <<embedTimeout, progressInterval, escalations>>
ctrlVars == <<flagVars, effectDeps, timerVars>>
histVars == <<attempt, endSessionCalls>>
windowVars == <<windowPolls, windowCalls>>
vars == <<dashVars, remoteVars, ctrlVars, histVars, config, windowVars, orphaned>>

NoConv == [id |-> 0, url |-> <<>>, tavusId |-> 0]
\* null (nothing is shown for an empty message either)
NoError == <<>>
\* the signed-in user of useAuth(): the same user as long as the Dashboard
\* is rendered
user == [id |-> "u1"]
NoRow == [status |-> "absent", ended_at |-> 0, tavus_conversation_id |-> 0,
          created_at |-> 0, user_id |-> ""]
\* a row removed by delete: its id is not given out again
DeletedRow == [NoRow EXCEPT !.status = "deleted"]
RowExists(r) == dbRows[r] # NoRow /\ dbRows[r] # DeletedRow
\* what a select returns for a row: the row with its id
NoData == [id |-> 0, row |-> NoRow]
RowData(r) == [id |-> r, row |-> dbRows[r]]
NoDeps == <<"unmounted">>
NoTimer == [pending |-> FALSE, loaded |-> FALSE, error |-> FALSE]
IdleFlow == [pc |-> "idle", tavusId |-> 0, url |-> <<>>, data |-> NoData]
\* fetchConversations: "sent", then "answered" (data), then "done"
SentList == [pc |-> "sent", data |-> <<>>, settled |-> "pending"]
SessionIds == 1..MaxSessions
\* the attempt number that stands for every instance that has left the tree
StaleAttempt == 0

\* Dashboard renders <VideoInterface> iff activeConversation is set
Mounted == activeConversation # NoConv

\* useEffect(..., [conversationUrl, retryCount]) has to run
EffectPending == Mounted /\ effectDeps # <<activeConversation.url, retryCount>>

\* events are handled once pending effects have run
Ready == Mounted /\ ~EffectPending

\* the <iframe> element is in the document
IframeRendered == Ready /\ activeConversation.url # <<>> /\ ~showFallback

Init ==
  /\ activeConversation = NoConv
  /\ isStartingVideo = FALSE
  /\ error = NoError
  /\ startFlow = IdleFlow
  /\ endFlows = EmptyBag
  /\ conversations = <<>>
  /\ loading = TRUE
  /\ listFlow = SentList
  /\ deleteFlows = {}
  /\ deleteCalls = 0
  /\ tavusSessions = [s \in SessionIds |-> "none"]
  /\ dbRows = [r \in SessionIds |-> NoRow]
  /\ clock = 1
  /\ iframeLoaded = FALSE
  /\ iframeError = FALSE
  /\ loadingProgress = 0
  /\ retryCount = 0
  /\ showFallback = FALSE
  /\ embedBlocked = FALSE
  /\ effectDeps = NoDeps
  /\ embedTimeout = NoTimer
  /\ progressInterval = FALSE
  /\ escalations = {}
  /\ attempt = 0
  /\ endSessionCalls = [s \in SessionIds |-> 0]
  /\ config \in Configs
  /\ windowPolls = {}
  /\ windowCalls = 0
  /\ orphaned = {}

\* ------------------------------------------------------------- TavusAPI
\* the check looking at the replica id only
Configured_ReplicaOnly == config.replicaId

\* if (!replicaId || !personaId)
Configured == config.replicaId /\ config.personaId

Thrown(m) == [ok |-> FALSE, isError |-> TRUE, message |-> m, hasId |-> FALSE,
              url |-> <<>>]

\* createConversation returning whatever body a success status comes with
createConversation_NoValidation(response) ==
  IF response.status = "network"
    THEN Thrown(IF Includes(response.message, PatFetch)
                  THEN MsgNetworkTavus ELSE response.message)
  ELSE IF response.status # "ok"
    THEN Thrown(IF response.message # <<>> THEN response.message ELSE MsgApiStatus)
  ELSE [ok |-> TRUE, isError |-> FALSE, message |-> <<>>,
        hasId |-> response.hasId, url |-> response.url]

\* createConversation once fetch has settled: the value it returns or the
\* error it throws
createConversation(response) ==
  IF response.status = "network"
    THEN Thrown(IF Includes(response.message, PatFetch)
                  THEN MsgNetworkTavus ELSE response.message)
  ELSE IF response.status # "ok"
    THEN Thrown(IF response.message # <<>> THEN response.message ELSE MsgApiStatus)
  ELSE IF ~response.hasId \/ response.url = <<>>
    THEN Thrown(MsgInvalidResponse)
  ELSE [ok |-> TRUE, isError |-> FALSE, message |-> <<>>,
        hasId |-> response.hasId, url |-> response.url]

\* ------------------------------------------------------------- Dashboard
\* the catch of startVideoConversation: the message it leaves in error
ErrorShown(thrown) ==
  LET errorMessage == IF thrown.isError THEN thrown.message ELSE MsgGeneric
  IN IF Includes(errorMessage, PatApiKey) THEN MsgApiKeyShown
     ELSE IF Includes(errorMessage, PatReplicaId) \/ Includes(errorMessage, PatPersonaId)
       THEN MsgReplicaShown
     ELSE IF Includes(errorMessage, PatFetch) THEN MsgNetworkShown
     ELSE errorMessage

\* startVideoConversation behind a button that is always there and enabled
startVideoConversation_AlwaysEnabled ==
  /\ \E s \in SessionIds : tavusSessions[s] = "none"
  /\ IF Configured
       THEN /\ isStartingVideo' = TRUE
            /\ error' = NoError
            /\ startFlow' = [IdleFlow EXCEPT !.pc = "tavus"]
       ELSE /\ isStartingVideo' = FALSE
            /\ error' = ErrorShown(Thrown(MsgConfigRequired))
            /\ startFlow' = IdleFlow
  /\ UNCHANGED <<activeConversation, endFlows, repoVars, remoteVars, ctrlVars,
                 histVars>>
  /\ UNCHANGED <<config, windowVars, orphaned>>

\* startVideoConversation, up to the fetch of tavusAPI.createConversation;
\* without replica or persona id createConversation throws before the fetch
\* and the catch and finally blocks run before any other event is handled
startVideoConversation ==
  /\ activeConversation = NoConv
  /\ ~isStartingVideo
  /\ \E s \in SessionIds : tavusSessions[s] = "none"
  /\ IF Configured
       THEN /\ isStartingVideo' = TRUE
            /\ error' = NoError
            /\ startFlow' = [IdleFlow EXCEPT !.pc = "tavus"]
       ELSE /\ isStartingVideo' = FALSE
            /\ error' = ErrorShown(Thrown(MsgConfigRequired))
            /\ startFlow' = IdleFlow
  /\ UNCHANGED <<activeConversation, endFlows, repoVars, remoteVars, ctrlVars,
                 histVars>>
  /\ UNCHANGED <<config, windowVars, orphaned>>

\* the first unused remote session id
NextSession == CHOOSE s \in SessionIds :
  tavusSessions[s] = "none" /\ \A r \in SessionIds : r < s => tavusSessions[r] # "none"

\* the first unused row id
NextRow == CHOOSE r \in SessionIds :
  dbRows[r] = NoRow /\ \A q \in SessionIds : q < r => dbRows[q] # NoRow

\* startTavusResult going on to createConversation after a rejection
startTavusResult_IgnoreRejection(response) ==
  /\ startFlow.pc = "tavus"
  /\ tavusSessions' = IF response.status = "ok"
       THEN [tavusSessions EXCEPT ![NextSession] = "active"] ELSE tavusSessions
  /\ startFlow' = [IdleFlow EXCEPT !.pc = "db", !.tavusId = NextSession,
                                    !.url = response.url]
  /\ UNCHANGED <<activeConversation, isStartingVideo, error, endFlows, repoVars,
                 dbRows, clock, ctrlVars, histVars>>
  /\ UNCHANGED <<config, windowVars, orphaned>>

\* the provider answers the fetch (a success status: it has created the
\* session), tavusAPI.createConversation resolves or rejects, and
\* startVideoConversation goes on to the insert or to its catch
startTavusResult(response) ==
  /\ startFlow.pc = "tavus"
  /\ tavusSessions' = IF response.status = "ok"
       THEN [tavusSessions EXCEPT ![NextSession] = "active"] ELSE tavusSessions
  /\ LET tavusConversation == createConversation(response)
     IN IF ~tavusConversation.ok
          THEN /\ error' = ErrorShown(tavusConversation)
               /\ isStartingVideo' = FALSE
               /\ startFlow' = IdleFlow
        ELSE IF tavusConversation.url = <<>>
          THEN /\ error' = ErrorShown(Thrown(MsgNoUrl))
               /\ isStartingVideo' = FALSE
               /\ startFlow' = IdleFlow
        ELSE /\ startFlow' = [IdleFlow EXCEPT !.pc = "db",
                 !.tavusId = IF tavusConversation.hasId THEN NextSession ELSE 0,
                 !.url = tavusConversation.url]
             /\ UNCHANGED <<isStartingVideo, error>>
  /\ orphaned' = IF response.status = "ok" /\ startFlow'.pc = "idle"
       THEN orphaned \cup {NextSession} ELSE orphaned
  /\ UNCHANGED <<activeConversation, endFlows, repoVars, dbRows, clock, ctrlVars,
                 histVars>>
  /\ UNCHANGED <<config, windowVars>>

\* a new VideoInterface instance: the useState initial values
MountController ==
  /\ iframeLoaded' = FALSE
  /\ iframeError' = FALSE
  /\ loadingProgress' = 0
  /\ retryCount' = 0
  /\ showFallback' = FALSE
  /\ embedBlocked' = FALSE
  /\ effectDeps' = NoDeps
  /\ embedTimeout' = NoTimer
  /\ progressInterval' = FALSE
  /\ attempt' = 1
  /\ UNCHANGED escalations

\* a VideoInterface instance leaves the tree: the effect cleanups run and
\* its state is gone
UnmountController ==
  /\ embedTimeout' = NoTimer
  /\ progressInterval' = FALSE
  /\ effectDeps' = NoDeps
  /\ iframeLoaded' = FALSE
  /\ iframeError' = FALSE
  /\ loadingProgress' = 0
  /\ retryCount' = 0
  /\ showFallback' = FALSE
  /\ embedBlocked' = FALSE
  /\ attempt' = 0
  /\ escalations' = IF escalations = {} THEN {} ELSE {StaleAttempt}

\* the insert of createConversation is executed by the database; created_at
\* is the database's now(), ended_at is not given and stays null
insertConversation ==
  /\ startFlow.pc = "db"
  /\ dbRows' = [dbRows EXCEPT ![NextRow] =
       [status |-> "active", ended_at |-> 0,
        tavus_conversation_id |-> startFlow.tavusId, created_at |-> clock,
        user_id |-> user.id]]
  /\ clock' = clock + 1
  /\ startFlow' = [startFlow EXCEPT !.pc = "inserted",
                     !.data = [id |-> NextRow, row |-> dbRows'[NextRow]]]
  /\ UNCHANGED <<activeConversation, isStartingVideo, error, endFlows, repoVars,
                 tavusSessions, ctrlVars, histVars>>
  /\ UNCHANGED <<config, windowVars, orphaned>>

\* startVideoConversation ending the remote session when the insert fails
startDbResult_Compensates(outcome, thrown) ==
  /\ startFlow.pc = IF outcome = "ok" THEN "inserted" ELSE "db"
  /\ isStartingVideo' = FALSE
  /\ startFlow' = IdleFlow
  /\ IF outcome = "ok"
       THEN /\ conversations' = <<startFlow.data>> \o conversations
            /\ activeConversation' =
                 [id |-> startFlow.data.id, url |-> startFlow.url,
                  tavusId |-> startFlow.tavusId]
            /\ MountController
            /\ UNCHANGED <<error, orphaned, endSessionCalls>>
       ELSE /\ error' = ErrorShown(thrown)
            /\ orphaned' = orphaned \cup {startFlow.tavusId}
            /\ endSessionCalls' = [endSessionCalls EXCEPT ![startFlow.tavusId] = @ + 1]
            /\ UNCHANGED <<activeConversation, conversations, ctrlVars, attempt>>
  /\ UNCHANGED <<endFlows, loading, listFlow, deleteFlows, deleteCalls, remoteVars>>
  /\ UNCHANGED <<config, windowVars>>

\* createConversation resolves (the row is put in front of the cached list),
\* then setActiveConversation; or it rejects
startDbResult(outcome, thrown) ==
  /\ startFlow.pc = IF outcome = "ok" THEN "inserted" ELSE "db"
  /\ isStartingVideo' = FALSE
  /\ startFlow' = IdleFlow
  /\ IF outcome = "ok"
       THEN /\ conversations' = <<startFlow.data>> \o conversations
            /\ activeConversation' =
                 [id |-> startFlow.data.id, url |-> startFlow.url,
                  tavusId |-> startFlow.tavusId]
            /\ MountController
            /\ UNCHANGED <<error, orphaned>>
       ELSE /\ error' = ErrorShown(thrown)
            /\ orphaned' = orphaned \cup {startFlow.tavusId}
            /\ UNCHANGED <<activeConversation, conversations, ctrlVars, attempt>>
  /\ UNCHANGED <<endFlows, loading, listFlow, deleteFlows, deleteCalls, remoteVars,
                 endSessionCalls>>
  /\ UNCHANGED <<config, windowVars>>

\* endConversation calls that passed the null check, over all sessions
RECURSIVE SumCalls(_)
SumCalls(S) == IF S = {} THEN 0
               ELSE LET s == CHOOSE x \in S : TRUE
                    IN endSessionCalls[s] + SumCalls(S \ {s})
EndStarts == SumCalls(SessionIds)

\* endConversation, up to the call of tavusAPI.endConversation
endConversation ==
  /\ Mounted
  /\ EndStarts < MaxEndCalls
  /\ endFlows' = endFlows (+) SetToBag({[id |-> activeConversation.id,
                                         tavusId |-> activeConversation.tavusId,
                                         pc |-> "tavus", stamp |-> 0]})
  /\ endSessionCalls' =
       [endSessionCalls EXCEPT ![activeConversation.tavusId] = @ + 1]
  /\ UNCHANGED <<activeConversation, isStartingVideo, error, startFlow, repoVars,
                 remoteVars, ctrlVars, attempt>>
  /\ UNCHANGED <<config, windowVars, orphaned>>

\* endConversation going on to updateConversation although
\* tavusAPI.endConversation rejected
endTavusResult_IgnoreRejection(f, outcome) ==
  /\ BagIn(f, endFlows)
  /\ f.pc = "tavus"
  /\ endFlows' = (endFlows (-) SetToBag({f}))
                    (+) SetToBag({[f EXCEPT !.pc = "db", !.stamp = clock]})
  /\ clock' = clock + 1
  /\ IF outcome = "ok"
       THEN tavusSessions' = [tavusSessions EXCEPT ![f.tavusId] = "ended"]
       ELSE UNCHANGED tavusSessions
  /\ UNCHANGED <<activeConversation, isStartingVideo, error, startFlow, repoVars,
                 dbRows, ctrlVars, histVars>>
  /\ UNCHANGED <<config, windowVars, orphaned>>

\* tavusAPI.endConversation resolves, then updateConversation is called;
\* or it rejects and the catch block only logs
endTavusResult(f, outcome) ==
  /\ BagIn(f, endFlows)
  /\ f.pc = "tavus"
  /\ IF outcome = "ok"
       THEN /\ tavusSessions' = [tavusSessions EXCEPT ![f.tavusId] = "ended"]
            /\ endFlows' = (endFlows (-) SetToBag({f}))
                              (+) SetToBag({[f EXCEPT !.pc = "db", !.stamp = clock]})
            /\ clock' = clock + 1
       ELSE /\ endFlows' = endFlows (-) SetToBag({f})
            /\ UNCHANGED <<tavusSessions, clock>>
  /\ UNCHANGED <<activeConversation, isStartingVideo, error, startFlow, repoVars,
                 dbRows, ctrlVars, histVars>>
  /\ UNCHANGED <<config, windowVars, orphaned>>

\* prev.map(conv => (conv.id === id ? data : conv))
ReplaceById(list, id, data) ==
  [i \in DOMAIN list |-> IF list[i].id = id THEN data ELSE list[i]]

\* endDbResult with an update of the status alone
endDbResult_StatusOnly(f, outcome) ==
  /\ BagIn(f, endFlows)
  /\ f.pc = "db"
  /\ endFlows' = endFlows (-) SetToBag({f})
  /\ IF outcome = "ok"
       THEN /\ RowExists(f.id)
            /\ dbRows' = [dbRows EXCEPT ![f.id] = [@ EXCEPT !.status = "ended"]]
            /\ conversations' =
                 ReplaceById(conversations, f.id, [id |-> f.id, row |-> dbRows'[f.id]])
            /\ activeConversation' = NoConv
            /\ error' = NoError
            /\ IF Mounted THEN UnmountController
                          ELSE UNCHANGED <<ctrlVars, attempt>>
       ELSE UNCHANGED <<activeConversation, error, conversations, dbRows, ctrlVars,
                        attempt>>
  /\ UNCHANGED <<isStartingVideo, startFlow, loading, listFlow, deleteFlows,
                 deleteCalls, tavusSessions, clock, endSessionCalls>>
  /\ UNCHANGED <<config, windowVars, orphaned>>

\* updateConversation resolves (the returned row replaces its cached copy),
\* then setActiveConversation(null) and setError(null); or it rejects and the
\* catch block only logs
endDbResult(f, outcome) ==
  /\ BagIn(f, endFlows)
  /\ f.pc = "db"
  /\ endFlows' = endFlows (-) SetToBag({f})
  /\ IF outcome = "ok"
       THEN /\ RowExists(f.id)
            /\ dbRows' = [dbRows EXCEPT ![f.id] =
                 [@ EXCEPT !.status = "ended", !.ended_at = f.stamp]]
            /\ conversations' =
                 ReplaceById(conversations, f.id, [id |-> f.id, row |-> dbRows'[f.id]])
            /\ activeConversation' = NoConv
            /\ error' = NoError
            /\ IF Mounted THEN UnmountController
                          ELSE UNCHANGED <<ctrlVars, attempt>>
       ELSE UNCHANGED <<activeConversation, error, conversations, dbRows, ctrlVars,
                        attempt>>
  /\ UNCHANGED <<isStartingVideo, startFlow, loading, listFlow, deleteFlows,
                 deleteCalls, tavusSessions, clock, endSessionCalls>>
  /\ UNCHANGED <<config, windowVars, orphaned>>

\* ------------------------------------------------------- useConversations
\* .order('created_at', { ascending: false }) over a set of row ids
RECURSIVE OrderNewestFirst(_)
OrderNewestFirst(S) ==
  IF S = {} THEN <<>>
  ELSE LET r == CHOOSE x \in S : \A y \in S : dbRows[y].created_at <= dbRows[x].created_at
       IN <<RowData(r)>> \o OrderNewestFirst(S \ {r})

\* the select of fetchConversations is executed by the database
selectConversations ==
  /\ listFlow.pc = "sent"
  /\ listFlow' = [listFlow EXCEPT !.pc = "answered",
                    !.data = OrderNewestFirst({r \in SessionIds :
                               RowExists(r) /\ dbRows[r].user_id = user.id})]
  /\ UNCHANGED <<activeConversation, isStartingVideo, error, startFlow, endFlows,
                 conversations, loading, deleteFlows, deleteCalls, remoteVars,
                 ctrlVars, histVars>>
  /\ UNCHANGED <<config, windowVars, orphaned>>

\* fetchConversations emptying the list when the select failed
fetchConversations_ClearOnFailure(outcome) ==
  /\ listFlow.pc = IF outcome = "ok" THEN "answered" ELSE "sent"
  /\ conversations' = IF outcome = "ok" THEN listFlow.data ELSE <<>>
  /\ loading' = FALSE
  /\ listFlow' = [listFlow EXCEPT !.pc = "done", !.data = <<>>, !.settled = "resolved"]
  /\ UNCHANGED <<activeConversation, isStartingVideo, error, startFlow, endFlows,
                 deleteFlows, deleteCalls, remoteVars, ctrlVars, histVars>>
  /\ UNCHANGED <<config, windowVars, orphaned>>

\* fetchConversations after its await: setConversations(data), or (the select
\* failed) the catch block that only logs; finally setLoading(false); the
\* promise resolves in both cases
fetchConversations(outcome) ==
  /\ listFlow.pc = IF outcome = "ok" THEN "answered" ELSE "sent"
  /\ conversations' = IF outcome = "ok" THEN listFlow.data ELSE conversations
  /\ loading' = FALSE
  /\ listFlow' = [listFlow EXCEPT !.pc = "done", !.data = <<>>, !.settled = "resolved"]
  /\ UNCHANGED <<activeConversation, isStartingVideo, error, startFlow, endFlows,
                 deleteFlows, deleteCalls, remoteVars, ctrlVars, histVars>>
  /\ UNCHANGED <<config, windowVars, orphaned>>

\* the ids of the cached rows
CachedIds == {conversations[i].id : i \in DOMAIN conversations}

\* the ids of the cards of the history list: rendered by the Dashboard while
\* no conversation is active and the list is not loading
Cards == IF Mounted \/ loading THEN {} ELSE CachedIds

\* a filter that drops the first match only
RECURSIVE RemoveById_FirstOnly(_, _)
RemoveById_FirstOnly(list, id) ==
  IF list = <<>> THEN <<>>
  ELSE IF Head(list).id = id THEN Tail(list)
  ELSE <<Head(list)>> \o RemoveById_FirstOnly(Tail(list), id)

\* prev.filter(conv => conv.id !== id)
RECURSIVE RemoveById(_, _)
RemoveById(list, id) ==
  IF list = <<>> THEN <<>>
  ELSE IF Head(list).id = id THEN RemoveById(Tail(list), id)
  ELSE <<Head(list)>> \o RemoveById(Tail(list), id)

\* handleDeleteConversation clearing the error as startVideoConversation does
handleDeleteConversation_ClearsError(id) ==
  /\ id \in Cards
  /\ id \notin deleteFlows
  /\ deleteCalls < MaxDeletes
  /\ deleteCalls' = deleteCalls + 1
  /\ deleteFlows' = deleteFlows \cup {id}
  /\ error' = NoError
  /\ UNCHANGED <<activeConversation, isStartingVideo, startFlow, endFlows,
                 conversations, loading, listFlow, remoteVars, ctrlVars, histVars>>
  /\ UNCHANGED <<config, windowVars, orphaned>>

\* the delete button of a card, confirmed: handleDeleteConversation up to the
\* call of deleteConversation (the card disables the button while deleting)
handleDeleteConversation(id) ==
  /\ id \in Cards
  /\ id \notin deleteFlows
  /\ deleteCalls < MaxDeletes
  /\ deleteCalls' = deleteCalls + 1
  /\ deleteFlows' = deleteFlows \cup {id}
  /\ UNCHANGED <<activeConversation, isStartingVideo, error, startFlow, endFlows,
                 conversations, loading, listFlow, remoteVars, ctrlVars, histVars>>
  /\ UNCHANGED <<config, windowVars, orphaned>>

\* deleteConversation of the hook called for any id, whatever the caller
deleteConversation(id) ==
  /\ id \notin deleteFlows
  /\ deleteCalls < MaxRepositoryDeletes
  /\ deleteCalls' = deleteCalls + 1
  /\ deleteFlows' = deleteFlows \cup {id}
  /\ UNCHANGED <<activeConversation, isStartingVideo, error, startFlow, endFlows,
                 conversations, loading, listFlow, remoteVars, ctrlVars, histVars>>
  /\ UNCHANGED <<config, windowVars, orphaned>>

\* deleteConversation resolves (the row is gone, its cached copies are
\* filtered out); or it rejects and handleDeleteConversation sets the error
deleteResult(id, outcome) ==
  /\ id \in deleteFlows
  /\ deleteFlows' = deleteFlows \ {id}
  /\ IF outcome = "ok"
       THEN /\ dbRows' = [dbRows EXCEPT ![id] = IF RowExists(id) THEN DeletedRow ELSE @]
            /\ conversations' = RemoveById(conversations, id)
            /\ UNCHANGED error
       ELSE /\ error' = MsgDeleteFailed
            /\ UNCHANGED <<dbRows, conversations>>
  /\ UNCHANGED <<activeConversation, isStartingVideo, startFlow, endFlows, loading,
                 listFlow, deleteCalls, tavusSessions, clock, ctrlVars, histVars>>
  /\ UNCHANGED <<config, windowVars, orphaned>>

\* the Dismiss button of the error box (the view without an active
\* conversation has it, the active view has not)
dismissError ==
  /\ ~Mounted
  /\ error # NoError
  /\ error' = NoError
  /\ UNCHANGED <<activeConversation, isStartingVideo, startFlow, endFlows, repoVars,
                 remoteVars, ctrlVars, histVars, config, windowVars, orphaned>>

\* the two End buttons (Dashboard header, VideoInterface bottom bar)
EndCallClick ==
  /\ Ready
  /\ endConversation

\* --------------------------------------------------------- VideoInterface
\* the url check of the effect: conversationUrl && conversationUrl.startsWith('http')
ValidUrl(url) == url # <<>> /\ StartsWith(url, Http)

\* the timeout the effect schedules: its callback closes over the flags of
\* the render the effect belongs to
ScheduledTimeout == [pending |-> TRUE, loaded |-> iframeLoaded, error |-> iframeError]

\* useEffect(..., [conversationUrl, retryCount]): cleanup of the previous
\* run, the resets, the url check, the two timers
RunEffect ==
  /\ EffectPending
  /\ effectDeps' = <<activeConversation.url, retryCount>>
  /\ iframeLoaded' = FALSE
  /\ loadingProgress' = 0
  /\ retryCount' = 0
  /\ showFallback' = FALSE
  /\ embedBlocked' = FALSE
  /\ IF ValidUrl(activeConversation.url)
       THEN /\ iframeError' = FALSE
            /\ progressInterval' = TRUE
            /\ embedTimeout' = ScheduledTimeout
       ELSE /\ iframeError' = TRUE
            /\ progressInterval' = FALSE
            /\ embedTimeout' = NoTimer
  /\ UNCHANGED <<dashVars, remoteVars, escalations, histVars>>
  /\ UNCHANGED <<config, windowVars, orphaned>>

\* the updater of the 200 ms interval
ProgressTick(inc) ==
  /\ Ready
  /\ progressInterval
  /\ IF loadingProgress >= ProgressCeiling
       THEN /\ progressInterval' = FALSE
            /\ UNCHANGED loadingProgress
       ELSE /\ loadingProgress' = loadingProgress + inc
            /\ UNCHANGED progressInterval
  /\ UNCHANGED <<dashVars, remoteVars, iframeLoaded, iframeError, retryCount,
                 showFallback, embedBlocked, effectDeps, embedTimeout, escalations,
                 histVars>>
  /\ UNCHANGED <<config, windowVars, orphaned>>

\* the callback of the 5000 ms timeout showing the fallback panel without
\* marking the embed as blocked
EmbedTimeoutFire_FallbackOnly ==
  /\ Ready
  /\ embedTimeout.pending
  /\ embedTimeout' = NoTimer
  /\ IF ~embedTimeout.loaded /\ ~embedTimeout.error
       THEN /\ showFallback' = TRUE
            /\ loadingProgress' = ProgressDone
            /\ UNCHANGED embedBlocked
       ELSE UNCHANGED <<embedBlocked, showFallback, loadingProgress>>
  /\ UNCHANGED <<dashVars, remoteVars, iframeLoaded, iframeError, retryCount,
                 effectDeps, progressInterval, escalations, histVars>>
  /\ UNCHANGED <<config, windowVars, orphaned>>

\* the callback of the 5000 ms timeout
EmbedTimeoutFire ==
  /\ Ready
  /\ embedTimeout.pending
  /\ embedTimeout' = NoTimer
  /\ IF ~embedTimeout.loaded /\ ~embedTimeout.error
       THEN /\ embedBlocked' = TRUE
            /\ showFallback' = TRUE
            /\ loadingProgress' = ProgressDone
       ELSE UNCHANGED <<embedBlocked, showFallback, loadingProgress>>
  /\ UNCHANGED <<dashVars, remoteVars, iframeLoaded, iframeError, retryCount,
                 effectDeps, progressInterval, escalations, histVars>>
  /\ UNCHANGED <<config, windowVars, orphaned>>

\* onLoad of the iframe
handleIframeLoad ==
  /\ IframeRendered
  /\ iframeLoaded' = TRUE
  /\ iframeError' = FALSE
  /\ embedBlocked' = FALSE
  /\ showFallback' = FALSE
  /\ loadingProgress' = ProgressDone
  /\ UNCHANGED <<dashVars, remoteVars, retryCount, effectDeps, timerVars, histVars>>
  /\ UNCHANGED <<config, windowVars, orphaned>>

\* handleIframeError without its setTimeout
handleIframeError_NoEscalation ==
  /\ IframeRendered
  /\ iframeError' = TRUE
  /\ iframeLoaded' = FALSE
  /\ loadingProgress' = 0
  /\ UNCHANGED <<dashVars, remoteVars, retryCount, showFallback, embedBlocked,
                 effectDeps, timerVars, histVars>>
  /\ UNCHANGED <<config, windowVars, orphaned>>

\* handleIframeError starting a new attempt by itself
handleIframeError_AutoRetry ==
  /\ IframeRendered
  /\ iframeError' = FALSE
  /\ iframeLoaded' = FALSE
  /\ loadingProgress' = 0
  /\ retryCount' = retryCount + 1
  /\ attempt' = attempt + 1
  /\ escalations' = escalations \cup {attempt}
  /\ UNCHANGED <<dashVars, remoteVars, showFallback, embedBlocked, effectDeps,
                 embedTimeout, progressInterval, endSessionCalls>>
  /\ UNCHANGED <<config, windowVars, orphaned>>

\* onError of the iframe; schedules the 1000 ms timeout
handleIframeError ==
  /\ IframeRendered
  /\ iframeError' = TRUE
  /\ iframeLoaded' = FALSE
  /\ loadingProgress' = 0
  /\ escalations' = escalations \cup {attempt}
  /\ UNCHANGED <<dashVars, remoteVars, retryCount, showFallback, embedBlocked,
                 effectDeps, embedTimeout, progressInterval, histVars>>
  /\ UNCHANGED <<config, windowVars, orphaned>>

\* the callback of the 1000 ms timeout; a state setter of an instance that
\* has left the tree does nothing
EscalationFire(t) ==
  /\ t \in escalations
  /\ ~EffectPending
  /\ escalations' = escalations \ {t}
  /\ IF Mounted /\ t # StaleAttempt
       THEN /\ embedBlocked' = TRUE
            /\ showFallback' = TRUE
       ELSE UNCHANGED <<embedBlocked, showFallback>>
  /\ UNCHANGED <<dashVars, remoteVars, iframeLoaded, iframeError, loadingProgress,
                 retryCount, effectDeps, embedTimeout, progressInterval, histVars>>
  /\ UNCHANGED <<config, windowVars, orphaned>>

\* the conditions under which a button with onClick={retryEmbed} is rendered
RetryAvailable ==
  /\ Ready
  /\ \/ (showFallback \/ embedBlocked) /\ ~embedBlocked
     \/ iframeError /\ ~showFallback
     \/ iframeError /\ ~embedBlocked

retryEmbed ==
  /\ RetryAvailable
  /\ attempt < MaxAttempts
  /\ retryCount' = retryCount + 1
  /\ iframeError' = FALSE
  /\ iframeLoaded' = FALSE
  /\ embedBlocked' = FALSE
  /\ showFallback' = FALSE
  /\ loadingProgress' = 0
  /\ attempt' = attempt + 1
  /\ UNCHANGED <<dashVars, remoteVars, effectDeps, timerVars, endSessionCalls>>
  /\ UNCHANGED <<config, windowVars, orphaned>>

trustedDomains == {TavusIo, DailyCo, TavusApiCom}

isFromTrustedDomain(origin) == \E domain \in trustedDomains : Includes(origin, domain)

\* the window 'message' listener
handleMessage(origin, type) ==
  /\ Ready
  /\ IF ~isFromTrustedDomain(origin) THEN UNCHANGED vars
     ELSE CASE type = "video-call-started" ->
                 /\ iframeLoaded' = TRUE
                 /\ UNCHANGED <<dashVars, remoteVars, iframeError, loadingProgress,
                                retryCount, showFallback, embedBlocked, effectDeps,
                                timerVars, histVars>>
            [] type = "video-call-ended" -> endConversation
            [] type = "iframe-blocked" ->
                 /\ embedBlocked' = TRUE
                 /\ showFallback' = TRUE
                 /\ UNCHANGED <<dashVars, remoteVars, iframeLoaded, iframeError,
                                loadingProgress, retryCount, effectDeps, timerVars,
                                histVars>>
            [] OTHER -> UNCHANGED vars
  /\ UNCHANGED <<config, windowVars, orphaned>>

\* one of the buttons that call openInNewWindow is rendered: fallback panel
\* (showFallback || embedBlocked), error panel (iframeError && !showFallback),
\* top bar (iframeError || embedBlocked)
OpenWindowAvailable == Ready /\ (showFallback \/ embedBlocked \/ iframeError)

\* openInNewWindow: window.open gives a window (a checkClosed interval and
\* the 30 minute timeout that clears it are set) or null (popup blocked: a
\* tab is opened, nothing is set); a window of the same name that is still
\* open is used again
openInNewWindow(popup) ==
  /\ OpenWindowAvailable
  /\ windowCalls < MaxWindows
  /\ windowCalls' = windowCalls + 1
  /\ windowPolls' = IF popup = "window"
       THEN windowPolls \cup {[id |-> windowCalls + 1, closed |-> FALSE]}
       ELSE windowPolls
  /\ UNCHANGED <<dashVars, remoteVars, ctrlVars, histVars, config, orphaned>>

\* the user closes the window that is watched
closeWindow ==
  /\ \E p \in windowPolls : ~p.closed
  /\ windowPolls' = {[p EXCEPT !.closed = TRUE] : p \in windowPolls}
  /\ UNCHANGED <<dashVars, remoteVars, ctrlVars, histVars, config, windowCalls,
                 orphaned>>

\* checkClosed calling onEndCall when it finds the window closed
checkClosed_CallsOnEndCall(p) ==
  /\ p \in windowPolls
  /\ windowPolls' = IF p.closed THEN windowPolls \ {p} ELSE windowPolls
  /\ IF p.closed /\ Mounted
       THEN /\ endFlows' = endFlows (+) SetToBag({[id |-> activeConversation.id,
                                  tavusId |-> activeConversation.tavusId,
                                  pc |-> "tavus", stamp |-> 0]})
            /\ endSessionCalls' =
                 [endSessionCalls EXCEPT ![activeConversation.tavusId] = @ + 1]
       ELSE UNCHANGED <<endFlows, endSessionCalls>>
  /\ UNCHANGED <<activeConversation, isStartingVideo, error, startFlow, repoVars,
                 remoteVars, ctrlVars, attempt, config, windowCalls, orphaned>>

\* a tick of a checkClosed interval: if (newWindow.closed) clearInterval;
\* the call of onEndCall is commented out
checkClosed(p) ==
  /\ p \in windowPolls
  /\ windowPolls' = IF p.closed THEN windowPolls \ {p} ELSE windowPolls
  /\ UNCHANGED <<dashVars, remoteVars, ctrlVars, histVars, config, windowCalls,
                 orphaned>>

\* the 30 minute timeout of a poll whose interval is still set
windowCapFire(p) ==
  /\ p \in windowPolls
  /\ windowPolls' = windowPolls \ {p}
  /\ UNCHANGED <<dashVars, remoteVars, ctrlVars, histVars, config, windowCalls,
                 orphaned>>

\* ------------------------------------------------------------------ spec
\* the Dashboard's start and end flows
LauncherNext ==
  \/ startVideoConversation
  \/ \E response \in Responses : startTavusResult(response)
  \/ insertConversation
  \/ \E outcome \in Outcomes, thrown \in DbThrown : startDbResult(outcome, thrown)
  \/ \E f \in BagToSet(endFlows), outcome \in Outcomes : endTavusResult(f, outcome)
  \/ \E f \in BagToSet(endFlows), outcome \in Outcomes : endDbResult(f, outcome)

\* the list of useConversations, the cards and the error box
RepositoryNext ==
  \/ selectConversations
  \/ \E outcome \in Outcomes : fetchConversations(outcome)
  \/ \E id \in SessionIds : handleDeleteConversation(id)
  \/ \E id \in SessionIds, outcome \in Outcomes : deleteResult(id, outcome)
  \/ dismissError

\* VideoInterface: effect, timers, iframe events, messages, buttons
ControllerNext ==
  \/ RunEffect
  \/ \E inc \in ProgressIncrements : ProgressTick(inc)
  \/ EmbedTimeoutFire
  \/ handleIframeLoad
  \/ handleIframeError
  \/ \E t \in escalations : EscalationFire(t)
  \/ retryEmbed
  \/ \E origin \in Origins, type \in MessageTypes : handleMessage(origin, type)
  \/ EndCallClick

\* the fallback window and its timers
WindowNext ==
  \/ \E popup \in Popups : openInNewWindow(popup)
  \/ closeWindow
  \/ \E p \in windowPolls : checkClosed(p)
  \/ \E p \in windowPolls : windowCapFire(p)

\* The fallback window's actions read the controller's flags and write
\* windowPolls and windowCalls only, and no other action reads these two:
\* Spec leaves them out (the user does not open the fallback window), and
\* WindowSpec puts them together with the launcher and the controller (the
\* list is not answered, no card is deleted).
Next == LauncherNext \/ RepositoryNext \/ ControllerNext

Spec == Init /\ [][Next]_vars

\* timer callbacks and pending effects are run by the event loop
FairSpec ==
  /\ Spec
  /\ WF_vars(RunEffect)
  /\ WF_vars(\E t \in escalations : EscalationFire(t))

\* The hook's deleteConversation as a function of the cached list: the
\* launcher has started and ended two sessions, the list has been answered,
\* and the cached list is one of those the program reaches in that state
\* (newest first, a row possibly twice).
DeleteCaches ==
  {<<>>, <<1>>, <<2>>, <<2, 1>>, <<2, 1, 1>>, <<2, 2, 1>>}

DeleteInit ==
  /\ activeConversation = NoConv
  /\ isStartingVideo = FALSE
  /\ error = NoError
  /\ startFlow = IdleFlow
  /\ endFlows = EmptyBag
  /\ dbRows = [r \in SessionIds |->
                 [status |-> "ended", ended_at |-> 2 * r, tavus_conversation_id |-> r,
                  created_at |-> 2 * r - 1, user_id |-> user.id]]
  /\ \E ids \in DeleteCaches :
        conversations = [i \in 1..Len(ids) |-> RowData(ids[i])]
  /\ loading = FALSE
  /\ listFlow = [pc |-> "done", data |-> <<>>, settled |-> "resolved"]
  /\ deleteFlows = {}
  /\ deleteCalls = 0
  /\ tavusSessions = [s \in SessionIds |-> "ended"]
  /\ clock = 2 * MaxSessions + 1
  /\ iframeLoaded = FALSE
  /\ iframeError = FALSE
  /\ loadingProgress = 0
  /\ retryCount = 0
  /\ showFallback = FALSE
  /\ embedBlocked = FALSE
  /\ effectDeps = NoDeps
  /\ embedTimeout = NoTimer
  /\ progressInterval = FALSE
  /\ escalations = {}
  /\ attempt = 0
  /\ endSessionCalls = [s \in SessionIds |-> 1]
  /\ config = [replicaId |-> TRUE, personaId |-> TRUE]
  /\ windowPolls = {}
  /\ windowCalls = 0
  /\ orphaned = {}

DeleteNext ==
  \/ \E id \in SessionIds : deleteConversation(id)
  \/ \E id \in SessionIds, outcome \in Outcomes : deleteResult(id, outcome)

DeleteSpec == DeleteInit /\ [][DeleteNext]_vars

WindowSpec == Init /\ [][LauncherNext \/ ControllerNext \/ WindowNext]_vars

\* ---------------------------------------------------------------- phases
\* the status line of the top bar: the first flag that holds names the phase
Phase ==
  IF ~Mounted THEN "Ended"
  ELSE IF iframeLoaded THEN "Embedded"
  ELSE IF embedBlocked \/ showFallback THEN "Blocked"
  ELSE IF iframeError THEN "Failed"
  ELSE "Loading"

\* the fallback panel replaces the iframe: inline embedding is not offered
Blocked == Mounted /\ embedBlocked /\ showFallback

InitialFlags ==
  /\ iframeLoaded = FALSE
  /\ iframeError = FALSE
  /\ loadingProgress = 0
  /\ retryCount = 0
  /\ showFallback = FALSE
  /\ embedBlocked = FALSE

\* the host of an origin: what follows "://"
SchemeEnd(o) == CHOOSE i \in 1..Len(o) :
  /\ SubSeq(o, i, i + 2) = SchemeSep
  /\ \A j \in 1..(i - 1) : SubSeq(o, j, j + 2) # SchemeSep
OriginHost(o) == SubSeq(o, SchemeEnd(o) + 3, Len(o))

\* the origin is one of the hosting domains or a subdomain of one
OriginAllowed(o) ==
  \E d \in trustedDomains :
    OriginHost(o) = d \/ EndsWith(OriginHost(o), Dot \o d)

\* ---------------------------------------------------------------- claims

\* C1, part 1: in every state with a mounted controller the steps that end
\* it are enabled one after the other: a pending effect can run, then the End
\* buttons and a trusted 'video-call-ended' message start an end flow, and a
\* running end flow of the mounted session can get a successful answer at
\* each of its two calls.
C1_EndEnabled ==
  /\ EffectPending => ENABLED RunEffect
  /\ (Ready /\ EndStarts < MaxEndCalls) =>
        /\ ENABLED EndCallClick
        /\ ENABLED handleMessage(OriginTavusDaily, "video-call-ended")
  /\ \A f \in BagToSet(endFlows) :
        /\ f.pc = "tavus" => ENABLED endTavusResult(f, "ok")
        /\ (f.pc = "db" /\ f.id = activeConversation.id) =>
              ENABLED endDbResult(f, "ok")

\* C1, part 2: an end flow whose two calls succeed leaves no controller
\* mounted; while none is mounted the controller state and its effect timers
\* stay as they are, and only a completed start flow mounts a controller, a
\* new one in its initial state.
C1_EndedStep ==
  /\ \A f \in BagToSet(endFlows) : endDbResult(f, "ok") => ~Mounted'
  /\ (~Mounted /\ ~Mounted') =>
        UNCHANGED <<flagVars, effectDeps, embedTimeout, progressInterval, attempt>>
  /\ (~Mounted /\ Mounted') => ((\E thrown \in DbThrown : startDbResult("ok", thrown)) /\ InitialFlags' /\ attempt' = 1)

\* C1 as claimed: Ended is reachable from every state with a mounted
\* controller through endCall or a trusted 'video-call-ended' message, and
\* nothing leaves Ended.
C1_EndedReachableAbsorbing == []C1_EndEnabled /\ [][C1_EndedStep]_vars

\* C2 as claimed: a message whose origin is not a hosting domain changes
\* nothing, whatever its type.
C2_UntrustedIgnored ==
  [][\A o \in Origins, ty \in MessageTypes :
       (~OriginAllowed(o) /\ handleMessage(o, ty)) => UNCHANGED vars]_vars

\* C3 as claimed: once loaded, the expiry of the blocking-detection timeout
\* does not block the controller, and a load sets the progress to 100.
C3_LoadCancelsTimeout ==
  [][/\ (iframeLoaded /\ EmbedTimeoutFire) => UNCHANGED <<embedBlocked, showFallback>>
     /\ handleIframeLoad => loadingProgress' = ProgressDone]_vars

\* C4 as claimed: a timer callback of a superseded attempt changes no
\* controller state, and no effect timer outlives the controller.
C4_StaleTimersInert ==
  [][/\ \A t \in escalations :
          (EscalationFire(t) /\ t # attempt) => UNCHANGED flagVars
     /\ ~Mounted' => (~embedTimeout'.pending /\ ~progressInterval')]_vars

\* C5 as claimed: when the provider's end call fails, the update of the
\* record is still issued.
C5_BestEffortEnd ==
  [][\A f \in BagToSet(endFlows) :
       endTavusResult(f, "fail") =>
         \E g \in BagToSet(endFlows') : g.id = f.id /\ g.pc = "db"]_vars

\* C6 as claimed: the provider's end call is issued at most once per session.
C6_EndedOnce == \A s \in SessionIds : endSessionCalls[s] <= 1

\* C7, the steps: an embed error puts the controller in Failed with the
\* escalation timeout pending; the timeout's expiry on the mounted controller
\* puts it in Blocked; neither step ends the session or starts an end flow.
C7_ErrorStep ==
  /\ handleIframeError =>
        /\ Phase' = "Failed"
        /\ attempt \in escalations'
        /\ UNCHANGED <<dashVars, remoteVars, endSessionCalls>>
  /\ \A t \in escalations :
        EscalationFire(t) =>
          /\ (Mounted /\ t # StaleAttempt) => Blocked'
          /\ UNCHANGED <<dashVars, remoteVars, endSessionCalls>>
\* C7, the pending timeout: while the error flag set by an embed error stands
\* and the controller is not blocked yet, the escalation timeout of the
\* attempt is pending.
C7_EscalationPending ==
  (Ready /\ iframeError /\ ValidUrl(activeConversation.url) /\ ~Blocked)
     => attempt \in escalations
\* C7: after an embed error the controller is in Failed and, once the
\* escalation timeout has expired, in Blocked (or it has been unmounted by an
\* end flow); the error by itself never ends the session.
C7_ErrorEscalates ==
  /\ [][C7_ErrorStep]_vars
  /\ []C7_EscalationPending
  /\ (Mounted /\ attempt \in escalations) ~> (Blocked \/ ~Mounted)

\* C7 witness: the escalation of an embed error has blocked the controller.
C7_Witness == Blocked /\ iframeError /\ ~iframeLoaded /\ escalations = {}

\* C8 as claimed: the expiry of the blocking-detection timeout blocks the
\* controller if no load and no error arrived, and changes nothing otherwise.
C8_TimeoutOnlyWhenSilent ==
  [][EmbedTimeoutFire =>
       IF ~iframeLoaded /\ ~iframeError
         THEN Blocked'
         ELSE UNCHANGED flagVars]_vars

\* C9 as claimed: Retry is available whenever the controller is Blocked.
C9_RetryFromBlocked == (Ready /\ Blocked) => RetryAvailable

\* C10 as claimed: at most one of loaded (the iframe is shown), error (the
\* error panel is shown) and blocked (the fallback panel is shown) holds.
C10_ExclusivePhase ==
  LET loaded == Mounted /\ iframeLoaded
      failed == Mounted /\ iframeError /\ ~showFallback
      blocked == Mounted /\ (showFallback \/ embedBlocked)
  IN /\ ~(loaded /\ failed)
     /\ ~(loaded /\ blocked)
     /\ ~(failed /\ blocked)

\* C11 as claimed: a trusted 'video-call-started' message leaves the
\* controller flags as an iframe load event does: loaded set, error, blocked
\* and fallback cleared, progress 100.
C11_StartedActsAsLoad ==
  [][handleMessage(OriginTavusDaily, "video-call-started") =>
       /\ iframeLoaded'
       /\ ~iframeError'
       /\ ~embedBlocked'
       /\ ~showFallback'
       /\ loadingProgress' = ProgressDone]_vars

\* C12 as claimed: after a trusted 'iframe-blocked' message the fallback
\* panel has replaced the iframe and the controller is in Blocked and in no
\* other phase: neither loaded nor showing the error panel.
C12_BlockedMessageForcesBlocked ==
  [][handleMessage(OriginTavusDaily, "iframe-blocked") =>
       /\ Blocked'
       /\ ~IframeRendered'
       /\ ~iframeLoaded'
       /\ ~(iframeError' /\ ~showFallback')]_vars

\* C13, the states: while createConversation (the insert) is running or has
\* answered, the provider has confirmed the session it records; every row
\* records a session the provider has created.
C13_CreateAfterSession ==
  /\ startFlow.pc \in {"db", "inserted"} => tavusSessions[startFlow.tavusId] = "active"
  /\ \A r \in SessionIds :
        RowExists(r) => tavusSessions[dbRows[r].tavus_conversation_id] # "none"
\* C13, the steps: a controller is mounted only by the step that receives the
\* inserted row, for that row and its session; a rejected createSession call
\* ends the start flow with no insert issued, no row written, nothing cached
\* and no controller mounted.
C13_StartStep ==
  /\ (~Mounted /\ Mounted') =>
        /\ startFlow.pc = "inserted"
        /\ activeConversation'.id = startFlow.data.id
        /\ startFlow.data.row.status = "active"
        /\ startFlow.data.row.tavus_conversation_id = activeConversation'.tavusId
  /\ \A response \in Responses :
        (~createConversation(response).ok /\ startTavusResult(response)) =>
          /\ startFlow'.pc = "idle"
          /\ ~Mounted'
          /\ UNCHANGED <<dbRows, conversations>>
\* C13: in the start flow the record is created only after the provider has
\* confirmed the session, and the controller is mounted only after the record
\* has been created; a rejected createSession creates no record and mounts
\* no controller.
C13_StartOrder == []C13_CreateAfterSession /\ [][C13_StartStep]_vars

\* C13 witness: a controller is mounted for a created record of a confirmed
\* session.
C13_Witness ==
  /\ Mounted
  /\ RowExists(activeConversation.id)
  /\ dbRows[activeConversation.id].tavus_conversation_id = activeConversation.tavusId
  /\ tavusSessions[activeConversation.tavusId] = "active"

\* C14: every row of the conversations table has ended_at set if and only if
\* its status is not 'active'.
C14_EndedAtIffNotActive ==
  \A r \in SessionIds :
    RowExists(r) => ((dbRows[r].ended_at # 0) <=> (dbRows[r].status # "active"))

\* C14 witness: the table holds an ended row with its ended_at and an active
\* row without one.
C14_Witness ==
  \E r, q \in SessionIds :
    /\ RowExists(r) /\ dbRows[r].status = "ended" /\ dbRows[r].ended_at # 0
    /\ RowExists(q) /\ dbRows[q].status = "active" /\ dbRows[q].ended_at = 0

\* C15 as claimed: once a row's ended_at is set, no later update writes it
\* again.
C15_EndedAtWrittenOnce ==
  [][\A r \in SessionIds :
       (RowExists(r) /\ dbRows[r].ended_at # 0 /\ dbRows'[r] # DeletedRow) =>
          dbRows'[r].ended_at = dbRows[r].ended_at]_vars

\* C16 as claimed: when createConversation succeeds the created row is at the
\* head of the cached list, and a cached row stays cached as long as its row
\* exists in the table, whatever the interleaving with a running list call.
C16_MutationsReflected ==
  [][/\ (\E thrown \in DbThrown : startDbResult("ok", thrown)) =>
          (conversations' # <<>> /\ Head(conversations').id = startFlow.data.id)
     /\ \A r \in SessionIds :
          (r \in CachedIds /\ RowExists(r)') => r \in CachedIds']_vars

\* C17 as claimed: the cached list is ordered by created_at, newest first,
\* and holds no id twice.
C17_CacheOrderedDistinct ==
  \A i, j \in DOMAIN conversations :
    i < j => /\ conversations[i].row.created_at >= conversations[j].row.created_at
             /\ conversations[i].id # conversations[j].id

\* C18 as claimed: a successful update of a row to status 'ended' with
\* ended_at T leaves the cached list with that status and that ended_at for
\* the row's id, and with the same length, the same ids in the same order and
\* every other cached row as it was.
C18_UpdateInPlace ==
  [][\A f \in BagToSet(endFlows) :
       endDbResult(f, "ok") =>
         /\ \E i \in DOMAIN conversations' : conversations'[i].id = f.id
         /\ DOMAIN conversations' = DOMAIN conversations
         /\ \A i \in DOMAIN conversations :
              /\ conversations'[i].id = conversations[i].id
              /\ IF conversations[i].id = f.id
                   THEN /\ conversations'[i].row.status = "ended"
                        /\ conversations'[i].row.ended_at = f.stamp
                   ELSE conversations'[i] = conversations[i]]_vars

\* C19 as claimed: every failing repository or provider call reaches its
\* caller as an error: a failed list rejects; a failed createSession, create
\* or delete runs the caller's catch block, which sets the error message; a
\* failed endSession or update ends the caller's end flow at that call.
C19_FailuresSurfaced ==
  [][/\ fetchConversations("fail") => listFlow'.settled = "rejected"
     /\ \A response \in Responses :
          (~createConversation(response).ok /\ startTavusResult(response)) =>
             error' # NoError
     /\ (\E thrown \in DbThrown : startDbResult("fail", thrown)) => error' # NoError
     /\ \A id \in SessionIds : deleteResult(id, "fail") => error' # NoError
     /\ \A f \in BagToSet(endFlows) :
          (endTavusResult(f, "fail") \/ endDbResult(f, "fail")) =>
             endFlows' = endFlows (-) SetToBag({f})]_vars

C21_NothingMissing ==
  /\ startFlow.pc \in {"db", "inserted"} =>
        startFlow.tavusId # 0 /\ startFlow.url # <<>>
  /\ \A r \in SessionIds : RowExists(r) => dbRows[r].tavus_conversation_id # 0
  /\ Mounted => activeConversation.tavusId # 0 /\ activeConversation.url # <<>>
\* C21, the steps: the answer of the provider takes the start flow on to the
\* insert exactly when the status is a success status and the body has a
\* conversation_id and a conversation_url; any other answer ends the flow
\* with an error message (the invalid-response message for a success status
\* with a field missing), no row, nothing cached and no controller.
C21_ResultStep ==
  \A response \in Responses :
    startTavusResult(response) =>
      IF response.status = "ok" /\ response.hasId /\ response.url # <<>>
        THEN /\ startFlow'.pc = "db"
             /\ startFlow'.tavusId # 0
             /\ startFlow'.url = response.url
        ELSE /\ startFlow'.pc = "idle"
             /\ error' # NoError
             /\ response.status = "ok" => error' = MsgInvalidResponse
             /\ ~Mounted'
             /\ UNCHANGED <<dbRows, conversations>>
\* C21: createSession succeeds only for a success status whose body carries
\* both a conversation_id and a conversation_url; a success status with a
\* field missing is an error, so no record is persisted and no controller
\* mounted with a missing session id or url.
C21_ResponseValidated == []C21_NothingMissing /\ [][C21_ResultStep]_vars

\* C21 witness: a success status with a field missing has been answered: the
\* provider has the session, the launcher shows the invalid-response error
\* and has neither a record nor a controller.
C21_Witness ==
  /\ error = MsgInvalidResponse
  /\ \E s \in SessionIds : tavusSessions[s] = "active"
  /\ \A r \in SessionIds : dbRows[r] = NoRow
  /\ ~Mounted

\* C22, the states: the Start button is disabled exactly while a start flow
\* is in progress, and no start flow is in progress while a controller is
\* mounted.
C22_OneFlow ==
  /\ isStartingVideo <=> startFlow.pc # "idle"
  /\ startFlow.pc # "idle" => ~Mounted
\* C22, the steps: a start is issued only with no start in flight and no
\* controller mounted; a remote session is created only by the one flow in
\* progress, one session per flow; a controller is mounted only by the step
\* that finishes the flow.
C22_FlowStep ==
  /\ startVideoConversation =>
        startFlow.pc = "idle" /\ ~isStartingVideo /\ ~Mounted
  /\ (\E s \in SessionIds : tavusSessions[s] = "none" /\ tavusSessions'[s] # "none") =>
        /\ startFlow.pc = "tavus" /\ startFlow'.pc # "tavus"
        /\ Cardinality({s \in SessionIds : tavusSessions'[s] # tavusSessions[s]}) = 1
  /\ (~Mounted /\ Mounted') => startFlow.pc = "inserted" /\ startFlow'.pc = "idle"
\* C22: at most one start flow is in progress and at most one session is
\* mounted: no start is issued while a start is in flight or a controller
\* is mounted, so no second remote session is created before the flow of
\* the first has finished.
C22_OneStartAtATime == []C22_OneFlow /\ [][C22_FlowStep]_vars

\* C22 witness: a start is in flight past createSession, a further remote
\* session could still be created, and the start is not available.
C22_Witness ==
  /\ startFlow.pc = "db"
  /\ \E s \in SessionIds : tavusSessions[s] = "none"
  /\ ~ENABLED startVideoConversation

\* C23 as claimed: once the controller has left the tree no timer of it is
\* scheduled: no blocking-detection timeout, no progress interval, no
\* escalation timeout and no window-closed poll.
C23_NoTimerAfterEnded ==
  ~Mounted =>
    /\ ~embedTimeout.pending
    /\ ~progressInterval
    /\ escalations = {}
    /\ windowPolls = {}

\* C24: a window-closed poll is stopped by the tick that finds its window
\* closed and by its 30 minute timeout, and by nothing else; a tick that
\* finds the window open leaves it running; the user closing the window and
\* the poll's timers leave the controller mounted as it is and start no end
\* flow.
C24_PollStops ==
  [][/\ \A p \in windowPolls :
          /\ checkClosed(p) => (p \in windowPolls' <=> ~p.closed)
          /\ windowCapFire(p) => p \notin windowPolls'
          /\ (p \notin windowPolls' /\ [p EXCEPT !.closed = TRUE] \notin windowPolls')
                => (checkClosed(p) /\ p.closed) \/ windowCapFire(p)
     /\ (closeWindow \/ \E p \in windowPolls : checkClosed(p) \/ windowCapFire(p)) =>
          UNCHANGED <<activeConversation, endFlows, endSessionCalls, tavusSessions,
                      dbRows, ctrlVars>>]_vars

\* C24 witness: the user has closed the fallback window, its poll has not
\* run yet, the controller is mounted and no end flow has been started.
C24_Witness ==
  /\ Mounted
  /\ \E p \in windowPolls : p.closed
  /\ endFlows = EmptyBag
  /\ \A s \in SessionIds : endSessionCalls[s] = 0

\* C25 as claimed: the progress indicator is within 0..100 in every state,
\* a tick of the progress interval never leaves it above the ceiling of 90,
\* and it becomes 100 only by an embed-success signal or by the expiry of
\* the blocking-detection timeout.
C25_ProgressWithinCeiling ==
  /\ [](loadingProgress \in 0..ProgressDone)
  /\ [][/\ ((\E inc \in ProgressIncrements : ProgressTick(inc))
               /\ loadingProgress' > loadingProgress) =>
            loadingProgress' <= ProgressCeiling
        /\ (loadingProgress' = ProgressDone /\ loadingProgress # ProgressDone) =>
            \/ handleIframeLoad
            \/ EmbedTimeoutFire
            \/ \E origin \in Origins : handleMessage(origin, "video-call-started")]_vars

C27_ErrorPersists ==
  [][/\ (error # NoError /\ error' = NoError) =>
          \/ dismissError
          \/ startVideoConversation
          \/ \E f \in BagToSet(endFlows) : endDbResult(f, "ok")
     /\ (error # NoError /\ error' # error /\ error' # NoError) =>
          \/ startVideoConversation
          \/ \E response \in Responses : startTavusResult(response)
          \/ \E thrown \in DbThrown : startDbResult("fail", thrown)
          \/ \E id \in SessionIds : deleteResult(id, "fail")
     /\ (error # NoError /\ error' # error) =>
          /\ UNCHANGED <<ctrlVars, windowVars>> \/ ~Mounted'
          /\ conversations' = conversations
               \/ \E f \in BagToSet(endFlows) : endDbResult(f, "ok")]_vars

\* C27 witness: the message of a failed delete is still shown while a
\* controller is mounted whose embed has loaded and the list has been
\* answered.
C27_Witness ==
  /\ error = MsgDeleteFailed
  /\ Ready
  /\ iframeLoaded
  /\ ~loading

\* C28 as claimed: a failed start leaves in error the message of the first
\* pattern found in the failure's message, in the order 'API key', then
\* 'replica_id' or 'persona_id', then 'fetch', and the generic message if
\* none is found; the rejection 'invalid replica_id' leaves the replica or
\* persona message.
C28_MessageMapping ==
  [][/\ \A response \in Responses :
          (~createConversation(response).ok /\ startTavusResult(response)) =>
             LET m == createConversation(response).message
             IN error' = IF Includes(m, PatApiKey) THEN MsgApiKeyShown
                         ELSE IF Includes(m, PatReplicaId) \/ Includes(m, PatPersonaId)
                           THEN MsgReplicaShown
                         ELSE IF Includes(m, PatFetch) THEN MsgNetworkShown
                         ELSE MsgGeneric
     /\ \A thrown \in DbThrown :
          startDbResult("fail", thrown) =>
             LET m == thrown.message
             IN error' = IF Includes(m, PatApiKey) THEN MsgApiKeyShown
                         ELSE IF Includes(m, PatReplicaId) \/ Includes(m, PatPersonaId)
                           THEN MsgReplicaShown
                         ELSE IF Includes(m, PatFetch) THEN MsgNetworkShown
                         ELSE MsgGeneric]_vars

\* C29, the states: a remote session whose start flow failed after the
\* provider had created it (the insert failed, or the answer was not valid)
\* stays as the provider created it: no row records it, no controller is mounted for it
\* and no endConversation call has been issued for it.
C29_OrphanLeftAlone ==
  \A s \in orphaned :
    /\ tavusSessions[s] = "active"
    /\ endSessionCalls[s] = 0
    /\ \A r \in SessionIds : dbRows[r].tavus_conversation_id # s
    /\ \A i \in 1..Len(conversations) : conversations[i].row.tavus_conversation_id # s
    /\ Mounted => activeConversation.tavusId # s
    /\ \A f \in BagToSet(endFlows) : f.tavusId # s
\* C29, the step: the failure of the insert ends the start flow with an
\* error; no row is written, nothing is cached, no controller is mounted and
\* no request goes to the provider.
C29_CreateFailsStep ==
  \A thrown \in DbThrown :
    startDbResult("fail", thrown) =>
      /\ tavusSessions[startFlow.tavusId] = "active"
      /\ startFlow'.pc = "idle"
      /\ error' # NoError
      /\ ~Mounted'
      /\ UNCHANGED <<dbRows, conversations, tavusSessions, endSessionCalls, endFlows>>
C30_NothingWithoutConfig ==
  ~(config.replicaId /\ config.personaId) =>
    /\ startFlow.pc = "idle"
    /\ \A s \in SessionIds : tavusSessions[s] = "none"
    /\ \A r \in SessionIds : dbRows[r] = NoRow
    /\ ~Mounted
\* C30, the step: with the replica or the persona id absent a start ends at
\* once with the configuration error (shown as the replica or persona
\* message) and leaves the provider untouched.
C30_ConfigStep ==
  (~(config.replicaId /\ config.personaId) /\ startVideoConversation) =>
    /\ error' = MsgReplicaShown
    /\ startFlow'.pc = "idle"
    /\ ~isStartingVideo'
    /\ UNCHANGED <<tavusSessions, dbRows>>
\* C30: createSession with the replica or persona parameter absent fails
\* with a configuration error before any request is issued; no remote
\* session is created.
C30_ConfigErrorBeforeRequest == []C30_NothingWithoutConfig /\ [][C30_ConfigStep]_vars

\* C30 witness: the persona id is absent (the replica id is set) and a start
\* has ended with the configuration error.
C30_Witness ==
  /\ config.replicaId /\ ~config.personaId
  /\ error = MsgReplicaShown
  /\ ~isStartingVideo

\* C31: a successful delete of an id takes from the cached list exactly the
\* entries with that id and leaves the others in their order; the list it
\* leaves has no entry with that id, and a successful delete of an id that
\* has been deleted before leaves the list as it is.
C31_DeleteIdempotent ==
  [][\A id \in SessionIds :
        deleteResult(id, "ok") =>
          LET Keep(conv) == conv.id # id
          IN /\ conversations' = SelectSeq(conversations, Keep)
             /\ \A i \in 1..Len(conversations') : conversations'[i].id # id
             /\ dbRows[id] = DeletedRow => conversations' = conversations]_vars

\* C31 witness: a row has been deleted with success and taken from the
\* list, other rows are still cached, and a second delete of the same id is
\* about to be answered.
C31_Witness ==
  \E id \in SessionIds :
    /\ dbRows[id] = DeletedRow
    /\ id \in deleteFlows
    /\ id \notin CachedIds
    /\ conversations # <<>>

\* C32: showFallback and embedBlocked are equal in every state, so a Retry
\* button is rendered only while iframeError holds and neither flag is set:
\* never in the fallback panel, and never once the controller is Blocked.
C32_FlagsEqualRetryOnlyOnError ==
  /\ showFallback = embedBlocked
  /\ RetryAvailable => iframeError /\ ~embedBlocked /\ ~showFallback
  /\ Blocked => ~ENABLED retryEmbed

\* C32 witness: the embed failed and the escalation has set both flags while
\* iframeError still holds; attempts are left, and Retry is not offered.
C32_Witness ==
  /\ Ready
  /\ attempt < MaxAttempts
  /\ iframeError
  /\ embedBlocked
  /\ showFallback

\* C33: a rejected tavusAPI.endConversation ends its end flow without a
\* call of updateConversation and leaves the mounted session, the rows, the
\* cached list and the error message as they were; hence a row has status
\* 'ended' only if the remote session it names was ended with success.
C33_EndedOnlyAfterRemoteEnd ==
  \A r \in SessionIds :
    (RowExists(r) /\ dbRows[r].status = "ended") =>
      /\ dbRows[r].tavus_conversation_id \in SessionIds
      /\ tavusSessions[dbRows[r].tavus_conversation_id] = "ended"

C33_FailureStep ==
  [][\A f \in BagToSet(endFlows) :
        (f.pc = "tavus" /\ endTavusResult(f, "fail")) =>
          /\ UNCHANGED <<activeConversation, error, dbRows, conversations,
                         tavusSessions>>
          /\ BagCardinality(endFlows') = BagCardinality(endFlows) - 1
          /\ \A g \in BagToSet(endFlows') : BagIn(g, endFlows)]_vars

C33_EndSessionFailureLeavesState ==
  []C33_EndedOnlyAfterRemoteEnd /\ C33_FailureStep

\* C33 witness: an earlier session was ended and its row is 'ended'; the
\* end flow of the mounted session was rejected by the provider: nothing is
\* in flight, the session is still mounted, its row is 'active' without
\* ended_at, its remote session is not ended and no error is shown.
C33_Witness ==
  /\ Mounted
  /\ endFlows = EmptyBag
  /\ endSessionCalls[activeConversation.tavusId] > 0
  /\ tavusSessions[activeConversation.tavusId] # "ended"
  /\ RowExists(activeConversation.id)
  /\ dbRows[activeConversation.id].status = "active"
  /\ dbRows[activeConversation.id].ended_at = 0
  /\ error = NoError
  /\ \E r \in SessionIds : RowExists(r) /\ dbRows[r].status = "ended"

\* C34: the effect of a controller whose url is empty or does not start
\* with 'http' sets iframeError and starts neither the progress interval nor
\* the embed timeout; from then on the controller keeps iframeError, is not
\* loaded and is not Blocked, until retryEmbed is called or the controller
\* leaves the tree (the url of a mounted controller never changes).
C34_InvalidUrlError ==
  /\ Ready
  /\ ~ValidUrl(activeConversation.url)
  /\ iframeError
  /\ ~iframeLoaded
  /\ ~embedBlocked
  /\ ~showFallback

C34_InvalidUrlStaysInError ==
  [][/\ (EffectPending /\ ~ValidUrl(activeConversation.url) /\ RunEffect) =>
          (iframeError' /\ ~progressInterval' /\ ~embedTimeout'.pending)
     /\ C34_InvalidUrlError =>
          \/ C34_InvalidUrlError'
          \/ retryCount' # retryCount
          \/ ~Mounted']_vars

\* C35: while a controller is mounted, the row with the mounted session's
\* id exists, names the mounted session's remote id and is 'active' without
\* ended_at; and a step that deletes or ends the row of the mounted session
\* is the update of an end flow.
C35_MountedRowActive ==
  Mounted =>
    /\ RowExists(activeConversation.id)
    /\ dbRows[activeConversation.id].tavus_conversation_id = activeConversation.tavusId
    /\ dbRows[activeConversation.id].status = "active"
    /\ dbRows[activeConversation.id].ended_at = 0

C35_MountedRecordActive ==
  /\ []C35_MountedRowActive
  /\ [][(Mounted /\ dbRows'[activeConversation.id] # dbRows[activeConversation.id]) =>
          \E f \in BagToSet(endFlows) :
            f.id = activeConversation.id /\ endDbResult(f, "ok")]_vars

====
